---- MODULE Spec2Model ----
(***************************************************************************)
(* The slideshow / power state machine of the M5Paper JPG viewer           *)
(* (src/unnamed/part_000): setup(), loop(), checkAutoAdvanceConditions(),  *)
(* toggleAutoAdvance(), displayImage() and updateStatusBar(), with the     *)
(* millisecond clock, the three buttons, the battery voltage and the SD    *)
(* card as the environment.                                                *)
(***************************************************************************)
EXTENDS Integers, Sequences, FiniteSets, TLC

VARIABLES
  pc,                  \* "boot" (before setup), "loop", "asleep"
  clock,               \* millis() when the last step ended
  fileCount,
  currentFileIndex,
  AUTO_ADVANCE,
  lastButtonPress,
  lastImageChange,
  autoAdvanceOffTime,
  sleepTimerActive,
  screen,              \* what the main canvas last pushed to the display
  bar,                 \* what the status bar canvas last pushed to the display
  userOff,             \* history: the last accepted toggle turned auto-advance off
  sdFailed,            \* history: SD.begin() failed in the last setup()
  lastCheck,           \* history: time of the step that last evaluated the policy
  last                 \* history: what the last step did, stage by stage

vars == <<pc, clock, fileCount, currentFileIndex, AUTO_ADVANCE,
          lastButtonPress, lastImageChange, autoAdvanceOffTime,
          sleepTimerActive, screen, bar, userOff, sdFailed, lastCheck, last>>

----------------------------------------------------------------------------
\* Program constants

MAX_FILES == 100
AUTO_ADVANCE_INTERVAL == 10000
SLEEP_TIMEOUT == 60000
DEBOUNCE_MS == 500
CHECK_PERIOD == 30000
LOW_BATTERY == 20
VOL_EMPTY == 3300
VOL_FULL == 4350
STARTUP_DELAY == 1000
SCAN_DELAY == 1000
STATUS_DELAY == 1000
TOGGLE_DELAY == 1000
LOOP_DELAY == 50

\* Bounds of the model

MaxLag == 1            \* ms that can pass between two millis() of one tick
MaxCard == 3           \* JPG files on the card

\* The battery voltages sampled: 19 % and 20 %
Voltages == {3509, 3510}

\* The instants sampled at which an iteration of loop() can read millis()
TickTimes == {2000, 2500, 12000, 30000, 61999, 62000, 90000}

\* The instants sampled when a JPG file can fail to decode
FaultTimes == {2000, 12000, 30000, 62000}

Lags == 0..MaxLag

----------------------------------------------------------------------------
\* unsigned long arithmetic (32 bits), a value held as <<high, low>> halves

U16 == 65536

U32Sub(a, b) == LET d == a - b IN <<(d \div U16) % U16, d % U16>>

U32Ge(x, k) == x[1] > k \div U16 \/ (x[1] = k \div U16 /\ x[2] >= k % U16)

U32Gt(x, k) == x[1] > k \div U16 \/ (x[1] = k \div U16 /\ x[2] > k % U16)

\* C integer division truncates toward zero
CDiv(a, b) == IF a >= 0 THEN a \div b ELSE -((-a) \div b)

\* Arduino map(x, in_min, in_max, out_min, out_max)
map(x, in_min, in_max, out_min, out_max) ==
  CDiv((x - in_min) * (out_max - out_min), in_max - in_min) + out_min

constrainHighOnly(x, lo, hi) == IF x > hi THEN hi ELSE x

constrain(x, lo, hi) == IF x < lo THEN lo ELSE IF x > hi THEN hi ELSE x

BatteryLevel(v) == constrain(map(v, VOL_EMPTY, VOL_FULL, 0, 100), 0, 100)

----------------------------------------------------------------------------
\* The globals of the sketch, as one record

Globals(i, a, lbp, lic, aot, sta) ==
  [currentFileIndex |-> i, AUTO_ADVANCE |-> a, lastButtonPress |-> lbp,
   lastImageChange |-> lic, autoAdvanceOffTime |-> aot, sleepTimerActive |-> sta]

InitGlobals == Globals(0, TRUE, 0, 0, 0, FALSE)

Cur == Globals(currentFileIndex, AUTO_ADVANCE, lastButtonPress, lastImageChange,
               autoAdvanceOffTime, sleepTimerActive)

\* loop(): the index arithmetic of the left and right buttons
PrevIndexWrapsToCount(i, n) == IF i > 0 THEN i - 1 ELSE n

PrevIndex(i, n) == IF i > 0 THEN i - 1 ELSE n - 1

NextIndexWrapsLate(i, n) == IF i < n THEN i + 1 ELSE 0

NextIndex(i, n) == IF i < n - 1 THEN i + 1 ELSE 0

\* loop(): the conditions of its four stages
DebounceAtLeast(currentTime, lbp) == U32Ge(U32Sub(currentTime, lbp), DEBOUNCE_MS)

DebouncePassed(currentTime, lbp) == U32Gt(U32Sub(currentTime, lbp), DEBOUNCE_MS)

CheckDue(currentTime) == currentTime % CHECK_PERIOD = 0

AutoAdvanceDueStrict(g, n, currentTime) ==
  /\ g.AUTO_ADVANCE
  /\ U32Gt(U32Sub(currentTime, g.lastImageChange), AUTO_ADVANCE_INTERVAL)
  /\ n > 1

AutoAdvanceDue(g, n, currentTime) ==
  /\ g.AUTO_ADVANCE
  /\ U32Ge(U32Sub(currentTime, g.lastImageChange), AUTO_ADVANCE_INTERVAL)
  /\ n > 1

SleepDue(g, currentTime) ==
  /\ g.sleepTimerActive
  /\ ~g.AUTO_ADVANCE
  /\ U32Ge(U32Sub(currentTime, g.autoAdvanceOffTime), SLEEP_TIMEOUT)

\* updateStatusBar(), lines 428-439: the auto-advance text, from the flag, the
\* battery percentage the function computes and the catalog size
StatusLabelCountFirst(auto, level, n) ==
  IF auto THEN "Auto"
  ELSE IF n <= 1 THEN "Auto OFF (1 Image) - Sleep in 1m"
  ELSE IF level < LOW_BATTERY THEN "Auto OFF (Battery) - Sleep in 1m"
  ELSE "Auto OFF - Sleep in 1m"

StatusLabel(auto, level, n) ==
  IF auto THEN "Auto"
  ELSE IF level < LOW_BATTERY THEN "Auto OFF (Battery) - Sleep in 1m"
  ELSE IF n <= 1 THEN "Auto OFF (1 Image) - Sleep in 1m"
  ELSE "Auto OFF - Sleep in 1m"

\* One drawing of the status bar: its text, with the flags it was drawn under
\* and whether the battery read was low when the text depends on it
updateStatusBar(g, n, level) ==
  [label |-> StatusLabel(g.AUTO_ADVANCE, level, n),
   auto |-> g.AUTO_ADVANCE, armed |-> g.sleepTimerActive,
   low |-> ~g.AUTO_ADVANCE /\ level < LOW_BATTERY]

\* displayImage(): ok is what drawJpgFile returns. The globals are not
\* written; a failure pushes the error text and returns before the status bar.
displayImageSkipsBadFile(g, n, level, ok) ==
  [g |-> IF ok THEN g ELSE [g EXCEPT !.currentFileIndex = NextIndex(@, n)],
   canvas |-> IF ok THEN "image" ELSE "Error loading image:",
   bars |-> IF ok THEN <<updateStatusBar(g, n, level)>> ELSE <<>>]

displayImage(g, n, level, ok) ==
  [g |-> g,
   canvas |-> IF ok THEN "image" ELSE "Error loading image:",
   bars |-> IF ok THEN <<updateStatusBar(g, n, level)>> ELSE <<>>]

\* checkAutoAdvanceConditions(): level is the battery percentage it computes,
\* ms the value its millis() returns
ArmSleepTimerNoFlag(g, ms) ==
  IF g.AUTO_ADVANCE
  THEN [g EXCEPT !.autoAdvanceOffTime = ms]
  ELSE g

ArmSleepTimer(g, ms) ==
  IF g.AUTO_ADVANCE
  THEN [g EXCEPT !.autoAdvanceOffTime = ms, !.sleepTimerActive = TRUE]
  ELSE g

ReEnable(g) == [g EXCEPT !.AUTO_ADVANCE = TRUE]

DisableReasonCountFirst(n, level) ==
  IF n <= 1 THEN "Only one image"
  ELSE IF level < LOW_BATTERY THEN "Low battery"
  ELSE ""

DisableReason(n, level) ==
  IF level < LOW_BATTERY THEN "Low battery"
  ELSE IF n <= 1 THEN "Only one image"
  ELSE ""

checkAutoAdvanceConditions(g, n, level, ms) ==
  LET previousState == g.AUTO_ADVANCE
      g1 == IF level < LOW_BATTERY
            THEN [ArmSleepTimer(g, ms) EXCEPT !.AUTO_ADVANCE = FALSE]
            ELSE IF n <= 1
            THEN [ArmSleepTimer(g, ms) EXCEPT !.AUTO_ADVANCE = FALSE]
            ELSE IF ~previousState THEN ReEnable(g)
            ELSE g
      disableReason == DisableReason(n, level)
  IN [g |-> g1, reason |-> disableReason,
      shown |-> (previousState # g1.AUTO_ADVANCE /\ n > 0),
      bar |-> updateStatusBar(g1, n, level)]

\* toggleAutoAdvance(): what it writes to the globals; ms is what its millis()
\* calls return
ToggleAllowedAnyCount(n, level) == ~(level < LOW_BATTERY)

ToggleAllowedAnyBattery(n, level) == ~(n <= 1)

ToggleAllowed(n, level) == ~(level < LOW_BATTERY) /\ ~(n <= 1)

Flip(g, ms) ==
  IF g.AUTO_ADVANCE
  THEN [g EXCEPT !.AUTO_ADVANCE = FALSE, !.autoAdvanceOffTime = ms,
                 !.sleepTimerActive = TRUE]
  ELSE [g EXCEPT !.AUTO_ADVANCE = TRUE, !.sleepTimerActive = FALSE]

toggleAutoAdvance(g, n, level, ms) ==
  LET g1 == IF ToggleAllowed(n, level) THEN Flip(g, ms) ELSE g
      g2 == [g1 EXCEPT !.lastImageChange = ms]
  IN [g |-> g2,
      accepted |-> ToggleAllowed(n, level),
      bar |-> updateStatusBar(g2, n, level)]

\* loop(), lines 120-129: what an accepted press does to the timestamps
AfterPressKeepsImageTimer(g, currentTime) ==
  [g EXCEPT !.lastButtonPress = currentTime,
            !.autoAdvanceOffTime =
               IF g.sleepTimerActive /\ ~g.AUTO_ADVANCE THEN currentTime ELSE @]

AfterPress(g, currentTime) ==
  [g EXCEPT !.lastButtonPress = currentTime,
            !.lastImageChange = currentTime,
            !.autoAdvanceOffTime =
               IF g.sleepTimerActive /\ ~g.AUTO_ADVANCE THEN currentTime ELSE @]

\* loop(), lines 97, 105, 113: three separate if statements, so a button's
\* press is handled whatever the buttons tested before it reported
RightHandledElse(passed, L, R) == passed /\ R /\ ~L

RightHandled(passed, L, R) == passed /\ R

MiddleHandled(passed, L, R, P) == passed /\ P

\* loop(), lines 94-130: the button handling. L, R, P are what wasPressed()
\* returns for BtnL, BtnR, BtnP; ms is the millis() toggleAutoAdvance reads;
\* okL, okR are what drawJpgFile returns in the displayImage of lines 102, 110.
ButtonStep(g, n, currentTime, L, R, P, level, ms, okL, okR) ==
  LET passed == DebouncePassed(currentTime, g.lastButtonPress)
      doL == passed /\ L
      dL == displayImage([g EXCEPT !.currentFileIndex = PrevIndex(@, n)],
                         n, level, okL)
      gL == IF doL THEN dL.g ELSE g
      doR == RightHandled(passed, L, R)
      dR == displayImage([gL EXCEPT !.currentFileIndex = NextIndex(@, n)],
                         n, level, okR)
      gR == IF doR THEN dR.g ELSE gL
      doP == MiddleHandled(passed, L, R, P)
      tg == toggleAutoAdvance(gR, n, level, ms)
      gP == IF doP THEN tg.g ELSE gR
      buttonPressed == doL \/ doR \/ doP
  IN [g |-> IF buttonPressed THEN AfterPress(gP, currentTime) ELSE gP,
      passed |-> passed, doL |-> doL, doR |-> doR, doP |-> doP,
      idxL |-> gL.currentFileIndex, idxR |-> gR.currentFileIndex,
      accepted |-> doP /\ tg.accepted,
      autoP |-> gP.AUTO_ADVANCE, staP |-> gP.sleepTimerActive,
      displayed |-> (IF doL THEN <<gL.currentFileIndex>> ELSE <<>>)
                   \o (IF doR THEN <<gR.currentFileIndex>> ELSE <<>>),
      drawn |-> (IF doL THEN <<dL.canvas>> ELSE <<>>)
               \o (IF doR THEN <<dR.canvas>> ELSE <<>>),
      bars |-> (IF doL THEN dL.bars ELSE <<>>)
              \o (IF doR THEN dR.bars ELSE <<>>)
              \o (IF doP THEN <<tg.bar>> ELSE <<>>),
      barRead |-> IF doP THEN <<gR.currentFileIndex>> ELSE <<>>]

\* loop(), lines 132-165, after the button handling: the periodic policy
\* evaluation, the auto-advance and the sleep check. ms is the millis() that
\* checkAutoAdvanceConditions reads, okA what drawJpgFile returns in the
\* displayImage of line 142.
TimerStepAdvanceFirst(g, n, currentTime, level, ms, okA) ==
  LET evalRan == CheckDue(currentTime)
      adv == AutoAdvanceDue(g, n, currentTime)
      dA == displayImage([g EXCEPT !.lastImageChange = currentTime,
                                   !.currentFileIndex = NextIndex(@, n)],
                         n, level, okA)
      gA == IF adv THEN dA.g ELSE g
      ev == checkAutoAdvanceConditions(gA, n, level, ms)
      gE == IF evalRan THEN ev.g ELSE gA
  IN [g |-> gE, evalRan |-> evalRan, evl |-> gE,
      reason |-> IF evalRan THEN ev.reason ELSE "",
      shown |-> evalRan /\ ev.shown,
      autoAdv |-> adv,
      slept |-> SleepDue(gE, currentTime),
      displayed |-> IF adv THEN <<gA.currentFileIndex>> ELSE <<>>,
      drawn |-> IF adv THEN <<dA.canvas>> ELSE <<>>,
      bars |-> (IF adv THEN dA.bars ELSE <<>>)
              \o (IF evalRan /\ ev.shown THEN <<ev.bar>> ELSE <<>>),
      barRead |-> IF evalRan /\ ev.shown THEN <<gA.currentFileIndex>> ELSE <<>>]

TimerStep(g, n, currentTime, level, ms, okA) ==
  LET evalRan == CheckDue(currentTime)
      ev == checkAutoAdvanceConditions(g, n, level, ms)
      gE == IF evalRan THEN ev.g ELSE g
      adv == AutoAdvanceDue(gE, n, currentTime)
      dA == displayImage([gE EXCEPT !.lastImageChange = currentTime,
                                    !.currentFileIndex = NextIndex(@, n)],
                         n, level, okA)
      gA == IF adv THEN dA.g ELSE gE
  IN [g |-> gA, evalRan |-> evalRan, evl |-> gE,
      reason |-> IF evalRan THEN ev.reason ELSE "",
      shown |-> evalRan /\ ev.shown,
      autoAdv |-> adv,
      slept |-> SleepDue(gA, currentTime),
      displayed |-> IF adv THEN <<gA.currentFileIndex>> ELSE <<>>,
      drawn |-> IF adv THEN <<dA.canvas>> ELSE <<>>,
      bars |-> (IF evalRan /\ ev.shown THEN <<ev.bar>> ELSE <<>>)
              \o (IF adv THEN dA.bars ELSE <<>>),
      barRead |-> IF evalRan /\ ev.shown THEN <<g.currentFileIndex>> ELSE <<>>]

\* An index into jpgFiles[MAX_FILES] outside the array
OutOfBounds(i) == i < 0 \/ i >= MAX_FILES

AnyOutOfBounds(s) == \E k \in 1..Len(s) : OutOfBounds(s[k])

\* What drawJpgFile can return with n files in the catalog: with none the path
\* it is given is not one of a file; faults tells whether a file of the
\* catalog can fail to decode
DrawOutcomes(n, faults) ==
  IF n = 0 THEN {FALSE} ELSE IF faults THEN BOOLEAN ELSE {TRUE}

\* The texts of showErrorMessage (lines 70, 85) and of the sleep notice (151)
SdErrorText == "SD Card initialization failed!"

NoFilesText == "No JPG files found on SD card!"

SleepNotice == "Device sleeping - Press any button to wake"

\* What the display shows after drawings: the last one, or what it showed
Shown(before, s) == IF Len(s) = 0 THEN before ELSE s[Len(s)]

BarShown(before, s) == IF Len(s) = 0 THEN before ELSE s[Len(s)].label

----------------------------------------------------------------------------
\* What a step did

NoStep(op) ==
  [op |-> op, time |-> 0, level |-> 0,
   L |-> FALSE, R |-> FALSE, P |-> FALSE,
   pre |-> InitGlobals, btn |-> InitGlobals, evl |-> InitGlobals,
   passed |-> FALSE, doL |-> FALSE, doR |-> FALSE, doP |-> FALSE,
   idxL |-> 0, idxR |-> 0, accepted |-> FALSE,
   autoP |-> TRUE, staP |-> FALSE,
   evalRan |-> FALSE, evalMs |-> 0, reason |-> "", shown |-> FALSE,
   autoAdv |-> FALSE, slept |-> FALSE,
   displayed |-> <<>>, drawn |-> <<>>, bars |-> <<>>,
   barRead |-> <<>>, oob |-> FALSE]

SetGlobals(g) ==
  /\ currentFileIndex' = g.currentFileIndex
  /\ AUTO_ADVANCE' = g.AUTO_ADVANCE
  /\ lastButtonPress' = g.lastButtonPress
  /\ lastImageChange' = g.lastImageChange
  /\ autoAdvanceOffTime' = g.autoAdvanceOffTime
  /\ sleepTimerActive' = g.sleepTimerActive

\* The state after the globals' initialisers have run, before setup()
Init ==
  /\ pc = "boot"
  /\ clock = 0
  /\ fileCount = 0
  /\ currentFileIndex = 0
  /\ AUTO_ADVANCE = TRUE
  /\ lastButtonPress = 0
  /\ lastImageChange = 0
  /\ autoAdvanceOffTime = 0
  /\ sleepTimerActive = FALSE
  /\ screen = ""
  /\ bar = ""
  /\ userOff = FALSE
  /\ sdFailed = FALSE
  /\ lastCheck = 0
  /\ last = NoStep("init")

\* setup(): sdOk is what SD.begin() returns, found the number of JPG files on
\* the card, v the battery voltage read, ok what drawJpgFile returns
SetupOn(faults) ==
  /\ pc = "boot"
  /\ \E sdOk \in BOOLEAN :
     \E found \in IF sdOk THEN 0..MaxCard ELSE {0} :
     \E v \in IF sdOk THEN Voltages ELSE {VOL_FULL} :
     \E ok \in IF sdOk /\ found > 0 THEN DrawOutcomes(found, faults)
               ELSE {TRUE} :
     \E ms \in {clock + STARTUP_DELAY + SCAN_DELAY} :
     \E n \in {IF found < MAX_FILES THEN found ELSE MAX_FILES} :
     \E ev \in {checkAutoAdvanceConditions(Cur, n, BatteryLevel(v), ms)} :
     \E d \in {displayImage(ev.g, n, BatteryLevel(v), ok)} :
     \E bars \in {IF ~sdOk THEN <<>>
                  ELSE (IF ev.shown THEN <<ev.bar>> ELSE <<>>)
                       \o (IF n > 0 THEN d.bars ELSE <<>>)} :
       /\ fileCount' = n
       /\ SetGlobals(IF ~sdOk THEN Cur ELSE IF n > 0 THEN d.g ELSE ev.g)
       /\ clock' = IF ~sdOk THEN clock + STARTUP_DELAY
                   ELSE ms + (IF ev.shown THEN STATUS_DELAY ELSE 0)
       /\ screen' = IF ~sdOk THEN SdErrorText
                    ELSE IF n > 0 THEN d.canvas ELSE NoFilesText
       /\ bar' = BarShown("", bars)
       /\ sdFailed' = ~sdOk
       /\ lastCheck' = IF sdOk THEN ms ELSE 0
       /\ last' = [NoStep("setup") EXCEPT
                     !.time = IF sdOk THEN ms ELSE clock + STARTUP_DELAY,
                     !.level = IF sdOk THEN BatteryLevel(v) ELSE 0,
                     !.pre = Cur, !.btn = Cur,
                     !.evl = IF sdOk THEN ev.g ELSE Cur,
                     !.evalRan = sdOk, !.evalMs = IF sdOk THEN ms ELSE 0,
                     !.reason = IF sdOk THEN ev.reason ELSE "",
                     !.shown = sdOk /\ ev.shown,
                     !.displayed = IF sdOk /\ n > 0 THEN <<0>> ELSE <<>>,
                     !.drawn = IF sdOk /\ n > 0 THEN <<d.canvas>> ELSE <<>>,
                     !.bars = bars,
                     !.barRead = IF sdOk /\ ev.shown THEN <<0>> ELSE <<>>]
  /\ pc' = "loop"
  /\ UNCHANGED userOff

\* A reset of the processor: the globals take their initial values again and
\* millis() restarts from 0; the e-paper panel keeps what it shows
RebootKeepsIndex(op) ==
  /\ pc' = "boot"
  /\ clock' = 0
  /\ fileCount' = 0
  /\ SetGlobals([InitGlobals EXCEPT !.currentFileIndex = currentFileIndex])
  /\ userOff' = FALSE
  /\ sdFailed' = FALSE
  /\ lastCheck' = 0
  /\ last' = NoStep(op)
  /\ UNCHANGED <<screen, bar>>

Reboot(op) ==
  /\ pc' = "boot"
  /\ clock' = 0
  /\ fileCount' = 0
  /\ SetGlobals(InitGlobals)
  /\ userOff' = FALSE
  /\ sdFailed' = FALSE
  /\ lastCheck' = 0
  /\ last' = NoStep(op)
  /\ UNCHANGED <<screen, bar>>

\* One iteration of loop(). The battery is read, and a lag drawn, only in an
\* iteration that uses them: what toggleAutoAdvance takes from millis() is
\* overwritten by lines 122 and 126 before anything reads it.
\* L, R, P: what wasPressed() returns for the three
\* buttons; okL, okR, okA: what drawJpgFile returns in the displayImage of the
\* left button, the right button and the auto-advance; v: the battery voltage
\* read; lag: the ms between the millis() of line 93 and a later millis() of
\* the same iteration; crash: whether a read outside jpgFiles ends in a
\* processor reset. times are the instants sampled.
TickOn(times, faults) ==
  /\ pc = "loop"
  /\ \E L \in BOOLEAN, R \in BOOLEAN, P \in BOOLEAN :
     \E currentTime \in {x \in times : x >= clock} :
     \E passed \in {DebouncePassed(currentTime, lastButtonPress)} :
     \E mayAdvance \in {/\ ~(passed /\ (L \/ R \/ P))
                        /\ AUTO_ADVANCE \/ CheckDue(currentTime)
                        /\ AutoAdvanceDue([Cur EXCEPT !.AUTO_ADVANCE = TRUE],
                                          fileCount, currentTime)} :
     \E okL \in IF passed /\ L THEN DrawOutcomes(fileCount, faults)
                ELSE {TRUE} :
     \E okR \in IF passed /\ R THEN DrawOutcomes(fileCount, faults)
                ELSE {TRUE} :
     \E okA \in IF mayAdvance THEN DrawOutcomes(fileCount, faults)
                ELSE {TRUE} :
     \E reads \in {\/ MiddleHandled(passed, L, R, P)
                   \/ CheckDue(currentTime)
                   \/ passed /\ L /\ okL
                   \/ passed /\ R /\ okR
                   \/ mayAdvance /\ okA} :
     \E v \in IF reads THEN Voltages ELSE {VOL_FULL} :
     \E lag \in IF CheckDue(currentTime) THEN Lags ELSE {0} :
     \E b \in {ButtonStep(Cur, fileCount, currentTime, L, R, P,
                          BatteryLevel(v), currentTime + lag, okL, okR)} :
     \E msE \in {currentTime + lag + (IF b.doP THEN TOGGLE_DELAY ELSE 0)} :
     \E t \in {TimerStep(b.g, fileCount, currentTime, BatteryLevel(v), msE,
                         okA)} :
     \E oob \in {AnyOutOfBounds(b.displayed \o t.displayed \o b.barRead \o t.barRead)} :
     \E crash \in IF oob THEN BOOLEAN ELSE {FALSE} :
     \E busy \in {(msE - currentTime) + (IF t.shown THEN STATUS_DELAY ELSE 0)
                  + LOOP_DELAY} :
       IF crash
       THEN Reboot("crash")
       ELSE /\ SetGlobals(t.g)
            /\ UNCHANGED <<fileCount, sdFailed>>
            /\ userOff' = IF b.accepted THEN ~b.autoP ELSE userOff
            /\ lastCheck' = IF t.evalRan THEN currentTime ELSE lastCheck
            /\ screen' = Shown(screen, b.drawn \o t.drawn)
            /\ bar' = IF t.slept THEN SleepNotice
                      ELSE BarShown(bar, b.bars \o t.bars)
            /\ last' = [op |-> "tick", time |-> currentTime,
                        level |-> IF b.doP \/ t.evalRan THEN BatteryLevel(v)
                                  ELSE 0,
                        L |-> L, R |-> R, P |-> P,
                        pre |-> Cur, btn |-> b.g, evl |-> t.evl,
                        passed |-> b.passed, doL |-> b.doL, doR |-> b.doR,
                        doP |-> b.doP, idxL |-> b.idxL, idxR |-> b.idxR,
                        accepted |-> b.accepted, autoP |-> b.autoP,
                        staP |-> b.staP,
                        evalRan |-> t.evalRan,
                        evalMs |-> IF t.evalRan THEN msE ELSE 0,
                        reason |-> t.reason, shown |-> t.shown,
                        autoAdv |-> t.autoAdv, slept |-> t.slept,
                        displayed |-> b.displayed \o t.displayed,
                        drawn |-> b.drawn \o t.drawn,
                        bars |-> b.bars \o t.bars,
                        barRead |-> b.barRead \o t.barRead, oob |-> oob]
            /\ pc' = IF t.slept THEN "asleep" ELSE "loop"
            /\ clock' = currentTime + busy

\* A wake source fires during deep sleep: the program restarts from setup()
Wake ==
  /\ pc = "asleep"
  /\ Reboot("wake")

\* The card's files all decode
Setup == SetupOn(FALSE)

Tick == TickOn(TickTimes, FALSE)

Next == Setup \/ Tick \/ Wake

Spec == Init /\ [][Next]_vars

\* A file of the catalog can fail to decode
SetupFaulty == SetupOn(TRUE)

TickFaulty == TickOn(FaultTimes, TRUE)

NextFaulty == SetupFaulty \/ TickFaulty \/ Wake

SpecFaulty == Init /\ [][NextFaulty]_vars

----------------------------------------------------------------------------
\* scanJpgFiles() and scanDirectory(), on their own, a pass of the loop of
\* scanDirectory() being one step. A directory is the
\* sequence of entries openNextFile() returns; an entry is a file with the
\* extension of its name, or a directory with its own entries.

FileEntry(ext) == [dir |-> FALSE, ext |-> ext, entries |-> <<>>]

DirEntry(entries) == [dir |-> TRUE, ext |-> "", entries |-> entries]

SCAN_SUBDIRECTORIES == TRUE

\* String::toLowerCase() on the extensions that occur
toLowerCase(ext) ==
  CASE ext = "JPG" -> "jpg"
    [] ext = "Jpeg" -> "jpeg"
    [] ext = "PNG" -> "png"
    [] OTHER -> ext

\* lines 351-353: the name, lowercased, ends with .jpg or .jpeg
IsJpg(ext) == toLowerCase(ext) = "jpg" \/ toLowerCase(ext) = "jpeg"

\* line 329: the condition of the while loop
HasRoomInclusive(count) == count <= MAX_FILES

HasRoom(count) == count < MAX_FILES

\* The scan in progress: the directories open, innermost last, each with its
\* entries and the position of the next one openNextFile() returns, and the
\* indices of jpgFiles written so far
ScanState(card, stack, writes) ==
  [op |-> "scan", card |-> card, stack |-> stack, writes |-> writes]

OpenDir(entries) == [entries |-> entries, next |-> 1]

\* Bounds of the cards scanned
MaxSub == 2            \* JPG files at the head of the subdirectory
MaxDeep == 2           \* JPG files in the subdirectory of the subdirectory

Rep(x, k) == [i \in 1..k |-> x]

\* The numbers of JPG files at the head of the root directory
RootCounts == {0, 1, MAX_FILES - 3, MAX_FILES - 2, MAX_FILES - 1, MAX_FILES,
               MAX_FILES + 1}

\* A card: a JPG files, some other file, a subdirectory (b JPG files, a
\* subdirectory of c JPG files, a text file, one more JPG file), and one
\* more JPG file after it
Card(a, b, c) ==
  Rep(FileEntry("jpg"), a)
  \o <<FileEntry("txt"),
       DirEntry(Rep(FileEntry("JPG"), b)
                \o <<DirEntry(Rep(FileEntry("jpeg"), c)),
                     FileEntry("PNG"), FileEntry("Jpeg")>>),
       FileEntry("jpg")>>

Cards == {Card(a, b, c) : a \in RootCounts, b \in 0..MaxSub, c \in 0..MaxDeep}

InitScan ==
  /\ pc = "scan"
  /\ clock = 0
  /\ fileCount = 0
  /\ currentFileIndex = 0
  /\ AUTO_ADVANCE = TRUE
  /\ lastButtonPress = 0
  /\ lastImageChange = 0
  /\ autoAdvanceOffTime = 0
  /\ sleepTimerActive = FALSE
  /\ screen = ""
  /\ bar = ""
  /\ userOff = FALSE
  /\ sdFailed = FALSE
  /\ lastCheck = 0
  /\ \E card \in Cards : last = ScanState(card, <<>>, <<>>)

\* scanJpgFiles(), lines 301-309: fileCount = 0 and scanDirectory("/")
ScanStart ==
  /\ pc = "scan"
  /\ fileCount' = 0
  /\ last' = ScanState(last.card, <<OpenDir(last.card)>>, <<>>)
  /\ pc' = "scanning"
  /\ screen' = "Scanning SD card for JPG files..."
  /\ UNCHANGED <<clock, currentFileIndex, AUTO_ADVANCE, lastButtonPress,
                 lastImageChange, autoAdvanceOffTime, sleepTimerActive, bar,
                 userOff, sdFailed, lastCheck>>

\* scanDirectory(): one pass of the while loop of the innermost open
\* directory, or its end (the test of line 329 fails, or openNextFile()
\* returns nothing) and the return to the directory above
ScanStep ==
  /\ pc = "scanning"
  /\ Len(last.stack) > 0
  /\ \E depth \in {Len(last.stack)} :
     \E top \in {last.stack[depth]} :
       IF ~HasRoom(fileCount) \/ top.next > Len(top.entries)
       THEN /\ last' = [last EXCEPT !.stack = SubSeq(@, 1, depth - 1)]
            /\ UNCHANGED fileCount
       ELSE \E entry \in {top.entries[top.next]} :
            \E read \in {[last.stack EXCEPT ![depth].next = @ + 1]} :
              IF entry.dir
              THEN /\ last' = [last EXCEPT !.stack =
                                  IF SCAN_SUBDIRECTORIES
                                  THEN Append(read, OpenDir(entry.entries))
                                  ELSE read]
                   /\ UNCHANGED fileCount
              ELSE IF IsJpg(entry.ext)
              THEN /\ last' = [last EXCEPT !.stack = read,
                                           !.writes = Append(@, fileCount)]
                   /\ fileCount' = fileCount + 1
              ELSE /\ last' = [last EXCEPT !.stack = read]
                   /\ UNCHANGED fileCount
  /\ UNCHANGED <<pc, clock, currentFileIndex, AUTO_ADVANCE, lastButtonPress,
                 lastImageChange, autoAdvanceOffTime, sleepTimerActive, screen,
                 bar, userOff, sdFailed, lastCheck>>

\* scanJpgFiles(), lines 311-316: the root directory is done
ScanEnd ==
  /\ pc = "scanning"
  /\ Len(last.stack) = 0
  /\ pc' = "scanned"
  /\ clock' = clock + SCAN_DELAY
  /\ screen' = "Found JPG files"
  /\ UNCHANGED <<fileCount, currentFileIndex, AUTO_ADVANCE, lastButtonPress,
                 lastImageChange, autoAdvanceOffTime, sleepTimerActive, bar,
                 userOff, sdFailed, lastCheck, last>>

NextScan == ScanStart \/ ScanStep \/ ScanEnd

SpecScan == InitScan /\ [][NextScan]_vars

----------------------------------------------------------------------------
\* The battery percentage, on its own: the three places that compute it
\* (lines 175-178, 232-234, 423-425) applied to one voltage

VoltMargin == 200      \* mV sampled below 3300 and above 4350

BatteryVoltages == (VOL_EMPTY - VoltMargin)..(VOL_FULL + VoltMargin)

InitBattery ==
  /\ pc = "battery"
  /\ clock = 0
  /\ fileCount = 2
  /\ currentFileIndex = 0
  /\ AUTO_ADVANCE = TRUE
  /\ lastButtonPress = 0
  /\ lastImageChange = 0
  /\ autoAdvanceOffTime = 0
  /\ sleepTimerActive = FALSE
  /\ screen = ""
  /\ bar = ""
  /\ userOff = FALSE
  /\ sdFailed = FALSE
  /\ lastCheck = 0
  /\ \E v \in BatteryVoltages : last = [op |-> "voltage", vol |-> v]

\* M5.getBatteryVoltage() returns last.vol to checkAutoAdvanceConditions, to
\* toggleAutoAdvance and to updateStatusBar, with two files and auto-advance
\* on (off for the status bar, which shows the battery only then)
ReadBattery ==
  /\ pc = "battery"
  /\ \E level \in {BatteryLevel(last.vol)} :
     \E ev \in {checkAutoAdvanceConditions(Cur, fileCount, level, clock)} :
     \E tg \in {toggleAutoAdvance(Cur, fileCount, level, clock)} :
     \E sb \in {updateStatusBar(ev.g, fileCount, level)} :
       /\ last' = [op |-> "battery", vol |-> last.vol, level |-> level,
                   reason |-> ev.reason, accepted |-> tg.accepted,
                   label |-> sb.label]
       /\ bar' = sb.label
  /\ pc' = "battery_read"
  /\ UNCHANGED <<clock, fileCount, currentFileIndex, AUTO_ADVANCE,
                 lastButtonPress, lastImageChange, autoAdvanceOffTime,
                 sleepTimerActive, screen, userOff, sdFailed, lastCheck>>

NextBattery == ReadBattery

SpecBattery == InitBattery /\ [][NextBattery]_vars

----------------------------------------------------------------------------
\* C1: with a non-empty catalog the index stays inside it, 0 <= currentFileIndex
\* < fileCount, in every reachable state and after each stage of an iteration
\* (Previous, Next, auto-advance).
C1_IndexInRange ==
  fileCount > 0 =>
    /\ currentFileIndex \in 0..(fileCount - 1)
    /\ last.op = "tick" =>
         /\ last.idxL \in 0..(fileCount - 1)
         /\ last.idxR \in 0..(fileCount - 1)
         /\ last.evl.currentFileIndex \in 0..(fileCount - 1)

\* An auto-advance has wrapped from the last index to 0.
C1_Witness ==
  /\ last.op = "tick"
  /\ fileCount > 1
  /\ last.autoAdv
  /\ last.evl.currentFileIndex = fileCount - 1
  /\ currentFileIndex = 0

\* C2: with an empty catalog a Previous or Next press is a no-op: the index
\* stays 0 and no entry of jpgFiles is read or rendered.
C2_EmptyCatalogNoOp ==
  (last.op = "tick" /\ fileCount = 0 /\ (last.doL \/ last.doR)) =>
    /\ currentFileIndex = 0
    /\ last.idxL = 0
    /\ last.displayed = <<>>

\* C3: with n > 0 files, Previous takes index i to (i - 1 + n) mod n, Next and
\* the auto-advance take i to (i + 1) mod n, i being the index the stage finds.
C3_WrapAround ==
  (last.op = "tick" /\ fileCount > 0) =>
    /\ last.doL =>
         last.idxL = (last.pre.currentFileIndex - 1 + fileCount) % fileCount
    /\ ~last.doL => last.idxL = last.pre.currentFileIndex
    /\ last.doR => last.idxR = (last.idxL + 1) % fileCount
    /\ ~last.doR => last.idxR = last.idxL
    /\ last.btn.currentFileIndex = last.idxR
    /\ last.autoAdv =>
         currentFileIndex = (last.evl.currentFileIndex + 1) % fileCount
    /\ ~last.autoAdv => currentFileIndex = last.evl.currentFileIndex

\* Next from the last of three files gives 0, after a Previous from 0 gave 2.
C3_Witness ==
  /\ last.op = "tick"
  /\ fileCount = 3
  /\ last.doL /\ last.pre.currentFileIndex = 0 /\ last.idxL = 2
  /\ last.doR /\ last.idxR = 0

\* C4: after every policy evaluation, a battery reading below 20 leaves
\* auto-advance disabled with the reason Low battery whatever the catalog size
\* and the state before; a reading of 20 or more with at most one file leaves
\* it disabled with the reason Only one image; and that reason is given only
\* for a reading of 20 or more.
C4_PolicyPrecedence ==
  last.evalRan =>
    /\ last.level < 20 =>
         ~last.evl.AUTO_ADVANCE /\ last.reason = "Low battery"
    /\ (last.level >= 20 /\ fileCount <= 1) =>
         ~last.evl.AUTO_ADVANCE /\ last.reason = "Only one image"
    /\ last.reason = "Only one image" => last.level >= 20

\* An evaluation in loop() reads a low battery with a single file on the card.
C4_Witness ==
  /\ last.op = "tick"
  /\ last.evalRan
  /\ last.level < 20
  /\ fileCount <= 1
  /\ last.reason = "Low battery"
  /\ ~AUTO_ADVANCE

\* C5: once the user has turned auto-advance off by an accepted toggle, an
\* evaluation with battery >= 20 and more than one file leaves it disabled:
\* it stays off until the user toggles it on again.
C5_UserChoiceKept ==
  /\ (last.evalRan /\ userOff /\ last.level >= 20 /\ fileCount > 1) =>
       ~last.evl.AUTO_ADVANCE
  /\ (userOff /\ fileCount > 1 /\ last.op = "tick") => ~AUTO_ADVANCE

\* One stage takes auto-advance and the armed flag from (a0, s0) to (a1, s1):
\* the flag is set when auto-advance goes off, cleared when it goes on, and
\* kept otherwise.
FlagFollows(a0, s0, a1, s1) ==
  /\ (a0 /\ ~a1) => s1
  /\ (~a0 /\ a1) => ~s1
  /\ (a0 = a1) => (s1 = s0)

\* C6: sleepTimerActive becomes true exactly when auto-advance goes from
\* enabled to disabled and false exactly when it goes from disabled to
\* enabled, in the toggle and in the policy evaluation; nothing else changes it.
C6_ArmedFlagFollowsTransitions ==
  last.op \in {"tick", "setup"} =>
    /\ FlagFollows(last.pre.AUTO_ADVANCE, last.pre.sleepTimerActive,
                   last.autoP, last.staP)
    /\ FlagFollows(last.autoP, last.staP,
                   last.btn.AUTO_ADVANCE, last.btn.sleepTimerActive)
    /\ FlagFollows(last.btn.AUTO_ADVANCE, last.btn.sleepTimerActive,
                   last.evl.AUTO_ADVANCE, last.evl.sleepTimerActive)
    /\ FlagFollows(last.evl.AUTO_ADVANCE, last.evl.sleepTimerActive,
                   AUTO_ADVANCE, sleepTimerActive)

\* C7: an iteration puts the device to sleep exactly when the timer is armed,
\* auto-advance is off and SLEEP_TIMEOUT ms have really passed between
\* autoAdvanceOffTime and the iteration's currentTime.
C7_SleepOnlyAfterTimeout ==
  last.op = "tick" =>
    (last.slept <=>
       /\ sleepTimerActive
       /\ ~AUTO_ADVANCE
       /\ last.time - autoAdvanceOffTime >= SLEEP_TIMEOUT)

\* C8: an iteration without a button press that finds auto-advance disabled
\* puts the device to sleep if and only if its time is at least 60 s after the
\* arming, so that the device sleeps at the first such iteration and not
\* before; and the startup evaluation with three files and a low battery
\* disables auto-advance and arms the timer.
C8_SleepsAtFirstTickAfterTimeout ==
  /\ (last.op = "tick" /\ ~last.L /\ ~last.R /\ ~last.P /\ ~AUTO_ADVANCE) =>
       (pc = "asleep" <=> last.time >= autoAdvanceOffTime + SLEEP_TIMEOUT)
  /\ (last.op = "setup" /\ last.evalRan /\ fileCount = 3 /\ last.level < 20) =>
       (~AUTO_ADVANCE /\ sleepTimerActive /\ autoAdvanceOffTime = last.time)

\* C9 as stated: a press seen lastButtonPress + 500 ms or later is accepted,
\* an earlier one ignored.
C9_AcceptedFrom500 ==
  (last.op = "tick" /\ (last.L \/ last.R \/ last.P)) =>
    (last.passed <=> last.time - last.pre.lastButtonPress >= DEBOUNCE_MS)

\* C9, amended: a press is accepted when more than 500 ms have passed since
\* lastButtonPress and ignored when 500 ms or less have; an accepted press sets
\* lastButtonPress to the iteration's time, and the button handling of an
\* ignored press leaves the index, the auto-advance state and every timestamp
\* as they were.
C9_Debounce ==
  last.op = "tick" =>
    /\ last.passed <=> last.time - last.pre.lastButtonPress > DEBOUNCE_MS
    /\ (last.passed /\ (last.L \/ last.R \/ last.P)) =>
         last.btn.lastButtonPress = last.time
    /\ ~last.passed =>
         /\ last.btn = last.pre
         /\ ~last.doL /\ ~last.doR /\ ~last.doP
         /\ lastButtonPress = last.pre.lastButtonPress

\* A press arrives exactly 500 ms after an accepted one and is ignored.
C9_Witness ==
  /\ last.op = "tick"
  /\ last.L
  /\ last.pre.lastButtonPress > 0
  /\ last.time - last.pre.lastButtonPress = DEBOUNCE_MS
  /\ ~last.passed
  /\ currentFileIndex = last.pre.currentFileIndex

\* The number of displayImage calls of the button handling
ButtonRenders == (IF last.doL THEN 1 ELSE 0) + (IF last.doR THEN 1 ELSE 0)

\* C10 as stated: at most one intent is applied in an iteration, Previous
\* before Next before Toggle, with at most one render from the buttons.
C10_AtMostOneIntent ==
  last.op = "tick" =>
    /\ last.doL => (~last.doR /\ ~last.doP)
    /\ last.doR => ~last.doP
    /\ ButtonRenders <= 1

\* C10, amended: every button that reports a press in an iteration that
\* passes the debounce has its intent applied, in the order Previous, Next,
\* Toggle, each on the state the one before left; so up to three intents and
\* up to two renders come from the buttons of one iteration, and none when
\* the debounce does not pass.
C10_EveryPressApplied ==
  last.op = "tick" =>
    /\ last.doL = (last.passed /\ last.L)
    /\ last.doR = (last.passed /\ last.R)
    /\ last.doP = (last.passed /\ last.P)
    /\ ButtonRenders <= 2
    /\ last.doL => last.idxL = PrevIndex(last.pre.currentFileIndex, fileCount)
    /\ last.doR => last.idxR = NextIndex(last.idxL, fileCount)
    /\ (last.doP /\ last.accepted) => last.autoP = ~last.pre.AUTO_ADVANCE

\* All three buttons report a press in one iteration: the index goes back and
\* forth with two renders and auto-advance is toggled off.
C10_Witness ==
  /\ last.op = "tick"
  /\ fileCount = 3
  /\ last.doL /\ last.doR /\ last.doP
  /\ last.displayed = <<2, 0>>
  /\ last.accepted /\ ~AUTO_ADVANCE

\* C11: an iteration auto-advances if and only if, when it reaches line 138,
\* auto-advance is enabled, there is more than one file and at least 10000 ms
\* have passed since lastImageChange; the advance takes the index to the next
\* one and sets lastImageChange to the iteration's time, and nothing else in
\* that stage writes them. With two files, auto-advance never disabled and no
\* press accepted, the index is 0 until 10 s after boot and 1 from the first
\* iteration after that until 20 s: one advance.
C11_AutoAdvance ==
  last.op = "tick" =>
    /\ last.autoAdv <=>
         /\ last.evl.AUTO_ADVANCE
         /\ fileCount > 1
         /\ last.time - last.evl.lastImageChange >= AUTO_ADVANCE_INTERVAL
    /\ last.autoAdv =>
         /\ currentFileIndex = (last.evl.currentFileIndex + 1) % fileCount
         /\ lastImageChange = last.time
    /\ ~last.autoAdv =>
         /\ currentFileIndex = last.evl.currentFileIndex
         /\ lastImageChange = last.evl.lastImageChange
    /\ (fileCount = 2 /\ lastButtonPress = 0 /\ ~sleepTimerActive) =>
         /\ last.time < AUTO_ADVANCE_INTERVAL =>
              (currentFileIndex = 0 /\ ~last.autoAdv)
         /\ (last.time >= AUTO_ADVANCE_INTERVAL
             /\ last.time < 2 * AUTO_ADVANCE_INTERVAL) =>
              (currentFileIndex = 1 /\ lastImageChange >= AUTO_ADVANCE_INTERVAL)

\* Two files, no press: the iteration at 2000 ms has not advanced, and the
\* one at 12000 ms takes the index from 0 to 1.
C11_Witness ==
  /\ last.op = "tick"
  /\ fileCount = 2
  /\ lastButtonPress = 0
  /\ AUTO_ADVANCE
  /\ last.time = 12000
  /\ last.autoAdv
  /\ last.pre.lastImageChange = 0
  /\ last.evl.currentFileIndex = 0
  /\ currentFileIndex = 1
  /\ lastImageChange = 12000

\* C12: when a button's press is handled (left, right or middle, the toggle
\* accepted or refused), the button handling ends with lastImageChange at the
\* iteration's time and, if the sleep timer is armed with auto-advance off,
\* with autoAdvanceOffTime at the iteration's time too; that iteration does
\* not auto-advance, and no iteration auto-advances less than 10000 ms after
\* the last handled press.
C12_PressRestartsTimers ==
  last.op = "tick" =>
    /\ (last.doL \/ last.doR \/ last.doP) =>
         /\ last.btn.lastImageChange = last.time
         /\ (last.btn.sleepTimerActive /\ ~last.btn.AUTO_ADVANCE) =>
              last.btn.autoAdvanceOffTime = last.time
         /\ ~last.autoAdv
    /\ last.autoAdv =>
         last.time - lastButtonPress >= AUTO_ADVANCE_INTERVAL

\* A toggle refused with the timer armed: both timestamps move to the
\* iteration's time.
C12_Witness ==
  /\ last.op = "tick"
  /\ last.doP /\ ~last.accepted
  /\ ~last.doL /\ ~last.doR
  /\ last.pre.sleepTimerActive /\ ~last.pre.AUTO_ADVANCE
  /\ last.pre.autoAdvanceOffTime < last.time
  /\ last.pre.lastImageChange < last.time
  /\ last.btn.autoAdvanceOffTime = last.time
  /\ last.btn.lastImageChange = last.time

\* C13: a toggle is accepted if and only if the battery reads 20 % or more and
\* there is more than one file; an accepted toggle flips auto-advance, a
\* refused one leaves auto-advance and the armed flag as they were. With one
\* file and a battery of 20 % or more (50 %, read from 3825 mV, for one) the
\* evaluation leaves auto-advance disabled for the reason Only one image, and
\* every toggle is refused.
C13_ToggleGuard ==
  /\ (last.op = "tick" /\ last.doP) =>
       /\ last.accepted <=> (last.level >= LOW_BATTERY /\ fileCount > 1)
       /\ last.accepted => last.autoP = ~last.pre.AUTO_ADVANCE
       /\ ~last.accepted =>
            /\ last.autoP = last.pre.AUTO_ADVANCE
            /\ last.staP = last.pre.sleepTimerActive
       /\ fileCount = 1 => ~last.accepted
  /\ (last.evalRan /\ fileCount = 1 /\ last.level >= LOW_BATTERY) =>
       (~last.evl.AUTO_ADVANCE /\ last.reason = "Only one image")
  /\ (fileCount = 1 /\ pc = "loop") =>
       LET ev == checkAutoAdvanceConditions(Cur, fileCount,
                                            BatteryLevel(3825), clock)
           tg == toggleAutoAdvance(Cur, fileCount, BatteryLevel(3825), clock)
       IN /\ BatteryLevel(3825) = 50
          /\ ~ev.g.AUTO_ADVANCE /\ ev.reason = "Only one image"
          /\ ~tg.accepted
          /\ tg.g.AUTO_ADVANCE = AUTO_ADVANCE
          /\ tg.g.sleepTimerActive = sleepTimerActive

\* One file, battery at 20 %: the evaluation of setup() has disabled
\* auto-advance and a middle press is refused, auto-advance staying off.
C13_Witness ==
  /\ last.op = "tick"
  /\ fileCount = 1
  /\ last.doP /\ ~last.accepted
  /\ last.level >= LOW_BATTERY
  /\ ~last.pre.AUTO_ADVANCE /\ ~AUTO_ADVANCE
  /\ last.pre.sleepTimerActive /\ sleepTimerActive

\* C14: the policy evaluation runs at least once in every window of about
\* 30 s whatever the timing of the iterations: once setup() has evaluated the
\* policy, no iteration that skips the evaluation finds the last one two
\* periods or more in the past.
C14_EvaluationEveryPeriod ==
  (last.op = "tick" /\ ~sdFailed /\ ~last.evalRan) =>
    last.time - lastCheck < 2 * CHECK_PERIOD

\* The text displayImage pushes when drawJpgFile fails
LoadErrorText == "Error loading image:"

\* The position in last.drawn of the right button's render
RightDraw == IF last.doL THEN 2 ELSE 1

\* C15: a render that fails is not fatal. The error text is shown, the index
\* stays on the file that failed (that of setup() at 0, that of a press or of
\* the auto-advance where the index arithmetic put it, with no skip to another
\* file), the device keeps running its loop, and a left or right press handled
\* after the failure, in the same iteration or in any later one that passes the
\* debounce, still moves the index with wrap-around.
C15_RenderFailureNotFatal ==
  (fileCount > 0 /\ last.op \in {"setup", "tick"}) =>
    /\ (last.drawn # <<>> /\ last.drawn[Len(last.drawn)] = LoadErrorText) =>
         /\ screen = LoadErrorText
         /\ currentFileIndex = last.displayed[Len(last.displayed)]
         /\ pc \in {"loop", "asleep"}
    /\ last.op = "setup" => currentFileIndex = 0
    /\ last.op = "tick" =>
         /\ last.doL =>
              last.idxL = (last.pre.currentFileIndex - 1 + fileCount) % fileCount
         /\ last.doR => last.idxR = (last.idxL + 1) % fileCount
         /\ (last.doR /\ last.drawn[RightDraw] = LoadErrorText) =>
              last.btn.currentFileIndex = last.idxR
         /\ last.autoAdv =>
              currentFileIndex = (last.evl.currentFileIndex + 1) % fileCount
         /\ ~last.autoAdv => currentFileIndex = last.btn.currentFileIndex
    /\ (screen = LoadErrorText /\ pc = "loop") =>
         \A t \in {x \in FaultTimes : x >= clock} :
         \A L \in BOOLEAN, R \in BOOLEAN, ok \in BOOLEAN :
           LET b == ButtonStep(Cur, fileCount, t, L, R, FALSE, 100, t, ok, ok)
           IN /\ b.doL = (L /\ t - lastButtonPress > DEBOUNCE_MS)
              /\ b.doR = (R /\ t - lastButtonPress > DEBOUNCE_MS)
              /\ b.doL =>
                   b.idxL = (currentFileIndex - 1 + fileCount) % fileCount
              /\ b.doR => b.idxR = (b.idxL + 1) % fileCount
              /\ b.g.currentFileIndex = b.idxR

\* Three files: the render of the left press fails on file 2, and the right
\* press of the same iteration moves on to file 0, which renders.
C15_Witness ==
  /\ last.op = "tick"
  /\ fileCount = 3
  /\ last.doL /\ last.doR
  /\ last.displayed = <<2, 0>>
  /\ last.drawn = <<LoadErrorText, "image">>
  /\ currentFileIndex = 0
  /\ screen = "image"

\* The JPG files of a directory and of everything below it
RECURSIVE JpgsIn(_)
JpgsIn(entries) ==
  LET files == {i \in 1..Len(entries) :
                  ~entries[i].dir /\ IsJpg(entries[i].ext)}
      dirs == {i \in 1..Len(entries) : entries[i].dir}
      RECURSIVE Below(_)
      Below(ds) ==
        IF ds = {} THEN 0
        ELSE LET i == CHOOSE j \in ds : TRUE
             IN JpgsIn(entries[i].entries) + Below(ds \ {i})
  IN Cardinality(files) + Below(dirs)

\* C16: all through a scan and after it 0 <= fileCount <= MAX_FILES and every
\* write into jpgFiles was at an index in 0..MAX_FILES-1 (the indices 0, 1, 2,
\* ... in turn); after it fileCount is the number of JPG files on the card, or
\* MAX_FILES if there are more: once MAX_FILES entries are in, nothing more
\* is added from any directory at any depth.
C16_ScanWithinCapacity ==
  pc \in {"scanning", "scanned"} =>
    /\ fileCount \in 0..MAX_FILES
    /\ \A k \in 1..Len(last.writes) :
         last.writes[k] = k - 1 /\ last.writes[k] < MAX_FILES
    /\ Len(last.writes) = fileCount
    /\ pc = "scanned" =>
         fileCount = IF JpgsIn(last.card) < MAX_FILES THEN JpgsIn(last.card)
                     ELSE MAX_FILES

\* The catalog fills up inside a subdirectory: the root holds fewer than
\* MAX_FILES JPG files before it, and JPG files are left unread in it, below
\* it and after it.
C16_Witness ==
  /\ pc = "scanned"
  /\ fileCount = MAX_FILES
  /\ \E k \in 1..Len(last.card) :
       /\ last.card[k].dir
       /\ JpgsIn(SubSeq(last.card, 1, k - 1)) = MAX_FILES - 1
       /\ JpgsIn(last.card[k].entries) = 5
       /\ JpgsIn(SubSeq(last.card, k + 1, Len(last.card))) = 1

\* C17: deep sleep is one-way. The device is asleep only through an iteration
\* whose sleep check fired, with the sleep notice on the status bar; while it
\* is asleep neither loop() nor setup() can take a step, only a wake; and the
\* wake leaves every global at its initial value, fileCount at 0 and millis()
\* at 0, from which setup() then starts: catalog scanned again, index 0,
\* auto-advance at its default, timer disarmed, timestamps 0.
C17_SleepIsOneWay ==
  /\ pc = "asleep" =>
       /\ last.op = "tick" /\ last.slept
       /\ bar = SleepNotice
       /\ ~ENABLED Tick
       /\ ~ENABLED Setup
       /\ ENABLED Wake
  /\ (last.op = "tick" /\ last.slept) => pc = "asleep"
  /\ last.op = "wake" =>
       /\ pc = "boot"
       /\ Cur = InitGlobals
       /\ fileCount = 0
       /\ clock = 0
       /\ ~userOff
       /\ ~ENABLED Tick
  /\ last.op = "setup" => last.pre = InitGlobals

\* A wake after an iteration that went to sleep: the panel still shows the
\* notice and the globals are initial.
C17_Witness ==
  /\ last.op = "wake"
  /\ pc = "boot"
  /\ bar = SleepNotice
  /\ currentFileIndex = 0
  /\ AUTO_ADVANCE /\ ~sleepTimerActive

\* C18: when SD.begin() has failed in setup(), the catalog stays empty and the
\* SD error screen stays: no later iteration renders anything on the main
\* canvas or reads an entry of the catalog.
C18_SdErrorPersists ==
  (sdFailed /\ pc \in {"loop", "asleep"}) =>
    /\ fileCount = 0
    /\ screen = SdErrorText
    /\ last.drawn = <<>>
    /\ last.displayed = <<>>

\* The texts of updateStatusBar that say auto-advance is off
OffLabels == {"Auto OFF (Battery) - Sleep in 1m",
              "Auto OFF (1 Image) - Sleep in 1m",
              "Auto OFF - Sleep in 1m"}

\* C19: every time updateStatusBar draws, in setup() or in an iteration: with
\* auto-advance enabled the text is exactly Auto; a text Auto OFF ... Sleep
\* in 1m is drawn only with auto-advance disabled and the sleep timer armed;
\* and the reason in it is Battery when the battery reads below 20 %, else
\* 1 Image when there is at most one file, else none.
C19_StatusLabel ==
  /\ last.op \in {"setup", "tick"} =>
       \A k \in 1..Len(last.bars) :
         LET d == last.bars[k]
         IN /\ d.auto => d.label = "Auto"
            /\ d.label \in OffLabels => (~d.auto /\ d.armed)
            /\ d.label \in OffLabels \cup {"Auto"}
            /\ ~d.auto =>
                 d.label = IF d.low THEN "Auto OFF (Battery) - Sleep in 1m"
                           ELSE IF fileCount <= 1
                           THEN "Auto OFF (1 Image) - Sleep in 1m"
                           ELSE "Auto OFF - Sleep in 1m"
  /\ bar \in OffLabels => (pc = "boot" \/ (~AUTO_ADVANCE /\ sleepTimerActive))

\* One file and a low battery: the status bar drawn in an iteration says
\* Battery, not 1 Image.
C19_Witness ==
  /\ last.op = "tick"
  /\ fileCount = 1
  /\ Len(last.bars) > 0
  /\ last.bars[1].low
  /\ last.bars[1].label = "Auto OFF (Battery) - Sleep in 1m"
  /\ bar = "Auto OFF (Battery) - Sleep in 1m"

\* C20: for every voltage v read, the percentage is an integer of 0..100: 0
\* for v <= 3300, 100 for v >= 4350, (v - 3300) * 100 / 1050 rounded down in
\* between, and never lower than the percentage of a lower voltage; and the
\* policy evaluation, the toggle and the status bar computed from that voltage
\* agree on whether it is below 20 %.
C20_BatteryPercentage ==
  pc = "battery_read" =>
    /\ last.level \in 0..100
    /\ last.vol <= VOL_EMPTY => last.level = 0
    /\ last.vol >= VOL_FULL => last.level = 100
    /\ (last.vol > VOL_EMPTY /\ last.vol < VOL_FULL) =>
         last.level = ((last.vol - VOL_EMPTY) * 100) \div (VOL_FULL - VOL_EMPTY)
    /\ \A w \in BatteryVoltages : w <= last.vol => BatteryLevel(w) <= last.level
    /\ (last.reason = "Low battery") = (last.level < LOW_BATTERY)
    /\ last.accepted = ~(last.level < LOW_BATTERY)
    /\ (last.label = "Auto OFF (Battery) - Sleep in 1m")
         = (last.level < LOW_BATTERY)

\* 3509 mV reads as 19 %: low for the evaluation, the toggle and the status bar.
C20_Witness ==
  /\ pc = "battery_read"
  /\ last.vol = 3509
  /\ last.level = 19
  /\ last.reason = "Low battery"
  /\ ~last.accepted
  /\ last.label = "Auto OFF (Battery) - Sleep in 1m"

\* C21: whenever a toggle is refused (the card was read, so setup evaluated the
\* policy), auto-advance is disabled at that moment: it was off when the middle
\* button was pressed and is off when the button handling ends, so a refused
\* toggle never leaves auto-advance running.
C21_RefusedToggleMeansDisabled ==
  (~sdFailed /\ last.op = "tick" /\ last.doP /\ ~last.accepted) =>
    /\ ~last.pre.AUTO_ADVANCE
    /\ ~last.autoP
    /\ ~last.btn.AUTO_ADVANCE

\* C22: in every reachable state, and after each stage of a loop pass (toggle,
\* button handling, policy evaluation), auto-advance being off implies that the
\* sleep timer is armed: auto-advance is never off with no countdown running.
C22_OffMeansSleepArmed ==
  /\ ~AUTO_ADVANCE => sleepTimerActive
  /\ last.op \in {"tick", "setup"} =>
       /\ ~last.pre.AUTO_ADVANCE => last.pre.sleepTimerActive
       /\ ~last.evl.AUTO_ADVANCE => last.evl.sleepTimerActive
  /\ last.op = "tick" =>
       /\ ~last.autoP => last.staP
       /\ ~last.btn.AUTO_ADVANCE => last.btn.sleepTimerActive

\* C22 witness: a loop pass whose policy evaluation switched auto-advance off
\* and armed the sleep timer that was not running before.
C22_Witness ==
  /\ last.op = "tick" /\ last.evalRan
  /\ last.btn.AUTO_ADVANCE /\ ~last.btn.sleepTimerActive
  /\ ~AUTO_ADVANCE /\ sleepTimerActive

\* C23: no step switches auto-advance from disabled to enabled while the
\* battery level read by that step is below 20 or fileCount <= 1.  In a loop
\* pass only an accepted toggle and a policy evaluation can enable it, each
\* with level >= 20 and more than one file; setup never enables it.
C23_NoEnableUnderForcedDisable ==
  /\ last.op = "tick" =>
       /\ (~last.pre.AUTO_ADVANCE /\ last.autoP) =>
            /\ last.doP /\ last.accepted
            /\ ~(last.level < LOW_BATTERY) /\ ~(fileCount <= 1)
       /\ last.btn.AUTO_ADVANCE = last.autoP
       /\ (~last.btn.AUTO_ADVANCE /\ last.evl.AUTO_ADVANCE) =>
            /\ last.evalRan
            /\ ~(last.level < LOW_BATTERY) /\ ~(fileCount <= 1)
       /\ AUTO_ADVANCE = last.evl.AUTO_ADVANCE
  /\ last.op = "setup" =>
       /\ ~(~last.pre.AUTO_ADVANCE /\ last.evl.AUTO_ADVANCE)
       /\ AUTO_ADVANCE = last.evl.AUTO_ADVANCE

\* C23 witness: a loop pass whose policy evaluation re-enabled auto-advance
\* that was off after the button handling.
C23_Witness ==
  /\ last.op = "tick" /\ last.evalRan
  /\ ~last.btn.AUTO_ADVANCE /\ last.evl.AUTO_ADVANCE /\ AUTO_ADVANCE
  /\ last.level >= LOW_BATTERY /\ fileCount > 1

\* C24: within one loop pass the stages run in the order button handling,
\* policy evaluation, auto-advance check, sleep check: the evaluation works on
\* the state the button handling left, the auto-advance is decided on the
\* state the evaluation left, and the sleep is decided on the final state.  A
\* pass that handled a button press does not auto-advance, and its index is
\* the one the presses produced; an auto-advance and a sleep never share a pass.
C24_StagesInOrder ==
  last.op = "tick" =>
    /\ ~last.passed => last.btn = last.pre
    /\ last.evl = IF last.evalRan
                  THEN checkAutoAdvanceConditions(last.btn, fileCount,
                                                  last.level, last.evalMs).g
                  ELSE last.btn
    /\ last.autoAdv <=> AutoAdvanceDue(last.evl, fileCount, last.time)
    /\ last.slept <=> SleepDue(Cur, last.time)
    /\ ~(last.autoAdv /\ last.slept)
    /\ (last.doL \/ last.doR \/ last.doP) =>
         /\ ~last.autoAdv
         /\ currentFileIndex = last.idxR
    /\ (~last.doL /\ ~last.doR) => last.idxR = last.pre.currentFileIndex
    /\ last.autoAdv =>
         currentFileIndex = NextIndex(last.pre.currentFileIndex, fileCount)

\* C24 witness: a pass at an evaluation instant that handled a right press
\* while the image timer had run out with auto-advance on: the press moved the
\* index and no auto-advance followed.
C24_Witness ==
  /\ last.op = "tick" /\ last.doR /\ ~last.doL /\ last.evalRan
  /\ fileCount > 1 /\ AUTO_ADVANCE
  /\ AutoAdvanceDue(last.pre, fileCount, last.time)
  /\ ~last.autoAdv
  /\ currentFileIndex = NextIndex(last.pre.currentFileIndex, fileCount)

====
